---- MODULE Spec2Model ----
(***************************************************************************)
(* The per-connection TCP session state machine of the relay               *)
(* (src/src/tcp_processor.rs, TCPProcessor) together with the parts of the *)
(* event loop it lives in: the reactor's registrations, the resolver's     *)
(* waiter list, the dispatcher's slab of processors and the two sockets of *)
(* each session.  A handler (process, handle_dns_resolved, destroy) is one *)
(* atomic step: the operators below thread one record w, the "world" of a  *)
(* session, through the calls the handler makes, in the order of the code. *)
(***************************************************************************)
EXTENDS Integers, Sequences, FiniteSets, TLC

VARIABLES
    proc,        \* session id -> the fields of its TCPProcessor
    loop,        \* session id -> side -> the events its socket is registered for
    dns,         \* session id -> hostnames its remote_token waits on in the resolver
    processors,  \* the dispatcher's slab: the tokens that have an entry
    sock,        \* session id -> the two sockets as the kernel sees them
    obs,         \* session id -> history of the handler runs (observation only)
    aborted,     \* "" or the place where a panic ended the event loop
    relay        \* the start-up of the relay: init_relay's holder, locals, result

vars == <<proc, loop, dns, processors, sock, obs, aborted, relay>>

-----------------------------------------------------------------------------
(* Bounds of the model *)

\* payload messages the local peer may push into the local socket
MaxSend == 1
\* longest method-selection message handed to check_auth_method
MaxHelloLen == 260
\* longest read (in bytes) the model distinguishes from a read of all that is there
MaxChunk == 2
\* messages the remote peer may push into the remote socket
MaxReply == 1
\* failures (of a read, a write, the cipher, register, connect) in one run
MaxFaults == 1
\* most bytes a short write leaves unwritten
MaxShort == 1
MaxSlab == 3
MaxPasses == 2

-----------------------------------------------------------------------------
(* Constants of the program *)

BUF_SIZE == 32 * 1024
METHOD_NOAUTH == 0
CMD_CONNECT == 1
CMD_UDP_ASSOCIATE == 3

\* length of the salt prefix of an encrypted stream
SaltLen == 2

\* conf "remote_port": the port of the peer relay
RemotePort == 8388

\* the configured host of the peer relay
RemoteHost == <<10, 0, 0, 2>>

-----------------------------------------------------------------------------
(* Option values, sequences *)

None == <<>>
Some(x) == <<x>>
IsSome(o) == o # <<>>
Unwrap(o) == o[1]

Min(a, b) == IF a <= b THEN a ELSE b
Take(s, n) == SubSeq(s, 1, n)
Drop(s, n) == SubSeq(s, n + 1, Len(s))
IsPrefix(s, t) == Len(s) <= Len(t) /\ Take(t, Len(s)) = s

RECURSIVE SeqSum(_)
SeqSum(s) == IF s = <<>> THEN 0 ELSE s[1] + SeqSum(Tail(s))

-----------------------------------------------------------------------------
(* Encryptor: a stateful stream cipher.  The first encrypt emits the salt,  *)
(* the first decrypt consumes one; the key stream depends on the salt and   *)
(* on the position in the stream.                                           *)

NewEncryptor(salt) ==
    [salt |-> salt, sent |-> FALSE, epos |-> 0, dsalt |-> <<>>, dpos |-> 0]

KeyStream(salt, i) == (SeqSum(salt) + 42 + 3 * i) % 256

\* encrypt(plaintext) -> ciphertext?   (ok = FALSE: the cipher reports an error)
encrypt(e, data, ok) ==
    IF ~ok THEN [enc |-> e, out |-> None]
    ELSE LET body == [i \in 1 .. Len(data) |->
                        (data[i] + KeyStream(e.salt, e.epos + i - 1)) % 256]
         IN [enc |-> [e EXCEPT !.sent = TRUE, !.epos = @ + Len(data)],
             out |-> Some((IF e.sent THEN <<>> ELSE e.salt) \o body)]

\* decrypt(ciphertext) -> plaintext?   (ok = FALSE: cipher-level error)
decrypt(e, data, ok) ==
    IF ~ok THEN [enc |-> e, out |-> None]
    ELSE LET take == Min(SaltLen - Len(e.dsalt), Len(data))
             dsalt == e.dsalt \o Take(data, take)
             body == Drop(data, take)
             plain == [i \in 1 .. Len(body) |->
                         (body[i] + 256 - KeyStream(dsalt, e.dpos + i - 1)) % 256]
         IN [enc |-> [e EXCEPT !.dsalt = dsalt, !.dpos = @ + Len(body)],
             out |-> Some(plain)]

-----------------------------------------------------------------------------
(* SOCKS5 address block: addr_type (1) | addr | port (2, big endian)        *)

parse_header(data) ==
    IF Len(data) < 1 THEN None
    ELSE CASE data[1] = 1 ->
                 IF Len(data) >= 7
                 THEN Some([addr_type |-> 1, host |-> SubSeq(data, 2, 5),
                            port |-> data[6] * 256 + data[7], header_length |-> 7])
                 ELSE None
           [] data[1] = 3 ->
                 IF Len(data) >= 2 /\ Len(data) >= data[2] + 4
                 THEN Some([addr_type |-> 3, host |-> SubSeq(data, 3, data[2] + 2),
                            port |-> data[data[2] + 3] * 256 + data[data[2] + 4],
                            header_length |-> data[2] + 4])
                 ELSE None
           [] data[1] = 4 ->
                 IF Len(data) >= 19
                 THEN Some([addr_type |-> 4, host |-> SubSeq(data, 2, 17),
                            port |-> data[18] * 256 + data[19], header_length |-> 19])
                 ELSE None
           [] OTHER -> None

-----------------------------------------------------------------------------
(* Results of a handler, and panics.  A panic (unwrap on None, an index out *)
(* of bounds, unimplemented!) unwinds through every caller and ends the     *)
(* event loop: the place is kept in w.aborted and nothing runs after it.    *)

Success(w) == [w EXCEPT !.res = [kind |-> "Success", tokens |-> <<>>]]
Panic(w, where) ==
    [w EXCEPT !.aborted = where, !.res = [kind |-> "Panic", tokens |-> <<>>]]
Panicked(w) == w.aborted # ""
IsSuccess(w) == w.res.kind = "Success"

\* macro need_destroy!: Failed(local_token [, remote_token])
need_destroy(w) ==
    IF ~IsSome(w.proc.local_token) THEN Panic(w, "need_destroy")
    ELSE [w EXCEPT !.res =
            [kind |-> "Failed",
             tokens |-> IF IsSome(w.proc.remote_token)
                        THEN <<Unwrap(w.proc.local_token), Unwrap(w.proc.remote_token)>>
                        ELSE <<Unwrap(w.proc.local_token)>>]]

\* the side of a socket, and whether the encryptor stands on it
Side(is_local_sock) == IF is_local_sock THEN "local" ELSE "remote"
\* the encryptor on the other socket of the session
IsCipherSide_swapped(is_client, is_local_sock) ==
    (is_client /\ is_local_sock) \/ (~is_client /\ ~is_local_sock)

IsCipherSide(is_client, is_local_sock) ==
    (is_client /\ ~is_local_sock) \/ (~is_client /\ is_local_sock)
HasSock(w, is_local_sock) ==
    IF is_local_sock THEN w.proc.local_sock ELSE w.proc.remote_sock

get_basic_events == {"readable", "error"}

\* enum HandleStage and the changes of stage the stage graph has
StageEdge(is_client, from, to) ==
    \/ from = to
    \/ to = "Destroyed"
    \/ is_client /\ <<from, to>> \in {<<"Init", "Addr">>, <<"Addr", "UDPAssoc">>}
    \/ <<from, to>> \in {<<"Addr", "DNS">>, <<"DNS", "Connecting">>,
                         <<"Connecting", "Stream">>}

\* an assignment to self.stage, noted when it is no edge of the graph
OffGraph(w, to) ==
    w.obs.off_graph \/ ~StageEdge(w.proc.is_client, w.proc.stage, to)

\* a result that stands unless the handler panicked on the way
SuccessUnlessPanic(w) == IF Panicked(w) THEN w ELSE Success(w)
KeepResult(w, res) == IF Panicked(w) THEN w ELSE [w EXCEPT !.res = res]

-----------------------------------------------------------------------------
(* Registration with the event loop *)

\* io.reg_ok is the result of event_loop.register
add_to_loop(w, token, events, is_local_sock) ==
    IF is_local_sock
    THEN [w EXCEPT !.proc.local_token = Some(token),
                   !.loop.local = IF w.proc.local_sock /\ w.io.reg_ok
                                  THEN Some(events) ELSE @]
    ELSE [w EXCEPT !.proc.remote_token = Some(token),
                   !.loop.remote = IF w.proc.remote_sock /\ w.io.reg_ok
                                   THEN Some(events) ELSE @]

TokenOf(w, is_local_sock) ==
    IF is_local_sock THEN w.proc.local_token ELSE w.proc.remote_token

change_status(w, events, is_local_sock) ==
    IF ~IsSome(TokenOf(w, is_local_sock)) THEN Panic(w, "change_status")
    ELSE add_to_loop(w, Unwrap(TokenOf(w, is_local_sock)), events, is_local_sock)

change_to_writable(w, is_local_sock) ==
    change_status(w, get_basic_events \cup {"writable", "hup"}, is_local_sock)

change_to_readable(w, is_local_sock) ==
    change_status(w, get_basic_events \cup {"hup"}, is_local_sock)

-----------------------------------------------------------------------------
(* destroy: the stage guard, then the teardown *)

\* DnsResolver.remove_caller(token): safe when the token waits on nothing
remove_caller(waits, token) == {}

\* the teardown without the call of remove_caller
teardown_keeps_waiter(w) ==
    IF ~w.proc.local_sock THEN Panic(w, "destroy")
    ELSE [w EXCEPT
            !.proc.local_sock = FALSE,
            !.loop.local = None,
            !.proc.remote_sock = FALSE,
            !.loop.remote = IF w.proc.remote_sock THEN None ELSE @]

\* the body of destroy after the stage guard, the stage already Destroyed
teardown(w) ==
    IF ~w.proc.local_sock THEN Panic(w, "destroy")
    ELSE [w EXCEPT
            !.proc.local_sock = FALSE,
            !.loop.local = None,
            !.proc.remote_sock = FALSE,
            !.loop.remote = IF w.proc.remote_sock THEN None ELSE @,
            !.dns = IF IsSome(w.proc.remote_token)
                    THEN remove_caller(@, Unwrap(w.proc.remote_token))
                    ELSE @]

\* destroy without its stage guard
destroy_unguarded(w) ==
    teardown([w EXCEPT !.obs.destroy_calls = @ + 1,
                       !.obs.teardowns = @ + 1,
                       !.proc.stage = "Destroyed", !.obs.off_graph = OffGraph(w, "Destroyed")])

destroy(w) ==
    IF w.proc.stage = "Destroyed"
    THEN [w EXCEPT !.obs.destroy_calls = @ + 1]
    ELSE teardown([w EXCEPT !.obs.destroy_calls = @ + 1,
                            !.obs.teardowns = @ + 1,
                            !.proc.stage = "Destroyed", !.obs.off_graph = OffGraph(w, "Destroyed")])

-----------------------------------------------------------------------------
(* Reading and writing the sockets *)

\* the bytes one read returns: io.rd_n at most, a buffer of BUF_SIZE at most
ReadLen(w, is_local_sock) ==
    Min(Min(w.io.rd_n, BUF_SIZE), Len(w.sock.inb[Side(is_local_sock)]))

ReadBytes(w, is_local_sock) ==
    Take(w.sock.inb[Side(is_local_sock)], ReadLen(w, is_local_sock))

\* receive_data after the read, d the outcome of Encryptor.decrypt
receive_data_decrypted(w, d) ==
    IF IsSome(d.out)
    THEN [w EXCEPT !.proc.encryptor = d.enc, !.data = d.out]
    ELSE destroy([w EXCEPT !.data = None, !.obs.last.cipher_err = TRUE])

\* receive_data after the read of the bytes raw
receive_data_read(w, raw, is_local_sock) ==
    IF IsCipherSide(w.proc.is_client, is_local_sock)
    THEN receive_data_decrypted(
             [w EXCEPT !.sock.inb[Side(is_local_sock)] = Drop(@, Len(raw)),
                       !.obs.dec = @ \cup {Side(is_local_sock)}],
             decrypt(w.proc.encryptor, raw, w.io.dec_ok))
    ELSE [w EXCEPT !.sock.inb[Side(is_local_sock)] = Drop(@, Len(raw)),
                   !.data = Some(raw)]

\* io.rd_err: read returns Err; io.rd_n: the bytes the read returns at most;
\* io.dec_ok: the outcome of Encryptor.decrypt.  The result is left in w.data.
receive_data(w, is_local_sock) ==
    IF ~HasSock(w, is_local_sock) THEN [w EXCEPT !.data = None]
    ELSE IF w.io.rd_err
    THEN [w EXCEPT !.data = None, !.obs.last.io_err = TRUE]
    ELSE receive_data_read(w, ReadBytes(w, is_local_sock), is_local_sock)

BufferOf(w, is_local_sock) ==
    IF is_local_sock THEN w.proc.data_to_write_to_local
    ELSE w.proc.data_to_write_to_remote

\* io.wr_local, io.wr_remote: what a write to the socket does in this handler
\* run: -1, it returns Err; r >= 0, it returns Ok and leaves the last r bytes
\* unwritten (all is written when there are no more than r bytes)
Refused(w, is_local_sock) ==
    IF is_local_sock THEN w.io.wr_local ELSE w.io.wr_remote

\* (any_error, size) of write_to_sock as one number: -1 for any_error
WriteSize(w, bytes, is_local_sock) ==
    IF ~HasSock(w, is_local_sock) THEN 0
    ELSE IF Refused(w, is_local_sock) < 0 THEN -1
    ELSE IF Refused(w, is_local_sock) < Len(bytes)
    THEN Len(bytes) - Refused(w, is_local_sock)
    ELSE Len(bytes)

\* write_to_sock after the write of size of the bytes
write_to_sock_written(w, bytes, is_local_sock, size) ==
    IF size < 0 THEN need_destroy([w EXCEPT !.obs.last.io_err = TRUE])
    ELSE IF Len(bytes) - size > 0
    THEN SuccessUnlessPanic(change_to_writable(
             IF is_local_sock
             THEN [w EXCEPT !.sock.out.local = @ \o Take(bytes, size),
                            !.obs.overtook.local =
                                @ \/ (~w.replay /\ size > 0
                                      /\ w.proc.data_to_write_to_local # <<>>),
                            !.proc.data_to_write_to_local = @ \o Drop(bytes, size)]
             ELSE [w EXCEPT !.sock.out.remote = @ \o Take(bytes, size),
                            !.obs.overtook.remote =
                                @ \/ (~w.replay /\ size > 0
                                      /\ w.proc.data_to_write_to_remote # <<>>),
                            !.proc.data_to_write_to_remote = @ \o Drop(bytes, size)],
             is_local_sock))
    ELSE Success([w EXCEPT !.sock.out[Side(is_local_sock)] = @ \o bytes,
                           !.obs.overtook[Side(is_local_sock)] =
                               @ \/ (~w.replay
                                     /\ BufferOf(w, is_local_sock) # <<>>)])

\* how often each byte of the output of Encryptor.encrypt has passed through
\* it, w.passes telling it of the input; the salt is made by this pass
PassesOf(w, bytes) ==
    [i \in 1 .. Len(bytes) |->
        IF i <= Len(bytes) - Len(w.passes) THEN 1
        ELSE Min(MaxPasses, w.passes[i - (Len(bytes) - Len(w.passes))] + 1)]

\* noted: the passes of the bytes the write takes and of those it leaves
Passed(w, passes, is_local_sock, size) ==
    IF ~IsCipherSide(w.proc.is_client, is_local_sock) \/ size < 0 THEN w
    ELSE [w EXCEPT !.obs.written_passes =
                       @ \cup {passes[i] : i \in 1 .. size},
                   !.obs.buffered_passes = @ \o Drop(passes, size)]

\* write_to_sock after Encryptor.encrypt, e its outcome; io.enc_ok tells it
write_to_sock_encrypted(w, e, is_local_sock) ==
    IF ~IsSome(e.out) THEN need_destroy([w EXCEPT !.obs.last.cipher_err = TRUE])
    ELSE write_to_sock_written(
             Passed([w EXCEPT !.proc.encryptor = e.enc],
                    PassesOf(w, Unwrap(e.out)), is_local_sock,
                    WriteSize(w, Unwrap(e.out), is_local_sock)),
             Unwrap(e.out), is_local_sock,
             WriteSize(w, Unwrap(e.out), is_local_sock))

\* the data a handler offers to a socket for the first time
Offered(w, data, is_local_sock) ==
    IF w.replay THEN w
    ELSE [w EXCEPT !.obs.want[Side(is_local_sock)] = @ \o data,
                   !.passes = [i \in 1 .. Len(data) |-> 0]]

\* noted: the data of this write passes through Encryptor.encrypt
Encrypting(w, is_local_sock) ==
    IF IsCipherSide(w.proc.is_client, is_local_sock)
    THEN [w EXCEPT !.obs.enc = @ \cup {Side(is_local_sock)}]
    ELSE w

write_to_sock(w, data, is_local_sock) ==
    IF Len(data) = 0 THEN Success(w)
    ELSE write_to_sock_encrypted(
             Encrypting(Offered(w, data, is_local_sock), is_local_sock),
             IF IsCipherSide(w.proc.is_client, is_local_sock)
             THEN encrypt(w.proc.encryptor, data, w.io.enc_ok)
             ELSE [enc |-> w.proc.encryptor, out |-> Some(data)],
             is_local_sock)

\* noted: the passes of the bytes taken out of the buffer
Replayed(w, is_local_sock) ==
    IF IsCipherSide(w.proc.is_client, is_local_sock)
    THEN [w EXCEPT !.passes = w.obs.buffered_passes,
                   !.obs.buffered_passes = <<>>]
    ELSE w

send_buf_data(w, is_local_sock) ==
    [write_to_sock(
         Replayed(IF is_local_sock
                  THEN [w EXCEPT !.proc.data_to_write_to_local = <<>>,
                                 !.replay = TRUE]
                  ELSE [w EXCEPT !.proc.data_to_write_to_remote = <<>>,
                                 !.replay = TRUE],
                  is_local_sock),
         BufferOf(w, is_local_sock), is_local_sock)
     EXCEPT !.replay = FALSE]

-----------------------------------------------------------------------------
(* The stage handlers of on_local_read *)

\* a handler of process starts: noted in the history of this run
Enter(w, name) ==
    [w EXCEPT !.obs.last.after_cipher_err = @ \/ w.obs.last.cipher_err]

\* data pushed on an output buffer without a write
Buffer(w, data) ==
    [w EXCEPT !.proc.data_to_write_to_remote = @ \o data,
              !.obs.want.remote = @ \o data,
              !.obs.buffered_passes =
                  IF IsCipherSide(w.proc.is_client, FALSE)
                  THEN @ \o [i \in 1 .. Len(data) |-> 0] ELSE @]

\* DnsResolver.resolve(hostname, token): the token waits on the hostname
resolve(w, hostname, token) ==
    [w EXCEPT !.dns = @ \cup {hostname}, !.obs.resolves = @ + 1]

handle_stage_stream(w, data) == write_to_sock(w, data, FALSE)

handle_stage_connecting(w, data) == Success(Buffer(w, data))

SuccessReply == <<5, 0, 0, 1, 0, 0, 0, 0, 16, 16>>
Loopback == <<127, 0, 0, 1>>

\* dns_resolver.resolve(hostname, self.remote_token.unwrap())
handle_stage_addr_resolve(w, hostname) ==
    IF ~IsSome(w.proc.remote_token) THEN Panic(w, "handle_stage_addr")
    ELSE Success(resolve(w, hostname, Unwrap(w.proc.remote_token)))

\* the client after try_process!(write_to_sock(reply, true))
handle_stage_addr_replied(w, data) ==
    IF ~IsSuccess(w) THEN w
    ELSE handle_stage_addr_resolve(Buffer(w, data), Loopback)

\* a handler that resolves the parsed host and stays in stage Addr
handle_stage_addr_header_stays(w, data, hd) ==
    handle_stage_addr_resolve(
        [w EXCEPT !.proc.server_address = Some(<<hd.host, hd.port>>)], hd.host)

\* after parse_header returned the header hd
handle_stage_addr_header(w, data, hd) ==
    IF w.proc.is_client
    THEN handle_stage_addr_replied(
             write_to_sock([w EXCEPT !.proc.stage = "DNS", !.obs.off_graph = OffGraph(w, "DNS"),
                                     !.proc.server_address =
                                         Some(<<hd.host, hd.port>>)],
                           SuccessReply, TRUE),
             data)
    ELSE handle_stage_addr_resolve(
             [w EXCEPT !.proc.stage = "DNS", !.obs.off_graph = OffGraph(w, "DNS"),
                       !.proc.server_address = Some(<<hd.host, hd.port>>),
                       !.proc.data_to_write_to_remote =
                           IF Len(data) > hd.header_length
                           THEN @ \o Drop(data, hd.header_length) ELSE @,
                       !.obs.want.remote =
                           IF Len(data) > hd.header_length
                           THEN @ \o Drop(data, hd.header_length) ELSE @],
             hd.host)

\* a handler that takes an address block it could not parse as an empty one
handle_stage_addr_lenient(w, data, h) ==
    handle_stage_addr_header(w, data,
        IF IsSome(h) THEN Unwrap(h)
        ELSE [addr_type |-> 1, host |-> Loopback, port |-> 0,
              header_length |-> 0])

\* after the command byte: parse_header and what follows it
handle_stage_addr_parsed(w, data, h) ==
    IF ~IsSome(h) THEN need_destroy(w)
    ELSE handle_stage_addr_header(w, data, Unwrap(h))

handle_stage_addr(w, data) ==
    IF w.proc.is_client
    THEN IF Len(data) < 2 THEN Panic(w, "handle_stage_addr")          \* data[1]
         ELSE IF data[2] = CMD_UDP_ASSOCIATE
         THEN Panic([w EXCEPT !.proc.stage = "UDPAssoc", !.obs.off_graph = OffGraph(w, "UDPAssoc")], "handle_stage_addr")
         ELSE IF data[2] = CMD_CONNECT
         THEN IF Len(data) < 3 THEN Panic(w, "handle_stage_addr")     \* &data[3..]
              ELSE handle_stage_addr_parsed(w, Drop(data, 3),
                                            parse_header(Drop(data, 3)))
         ELSE need_destroy(w)
    ELSE handle_stage_addr_parsed(w, data, parse_header(data))

\* data.len() as u8 != nmethods + 2: in 8 bits; io.ovf_panic tells whether
\* the build checks the addition for overflow
check_auth_method(data, ovf_panic) ==
    IF Len(data) < 3 THEN "BadSocksHeader"
    ELSE IF data[1] # 5 THEN "BadSocksHeader"
    ELSE IF data[2] >= 1 /\ data[2] + 2 > 255 /\ ovf_panic THEN "Panic"
    ELSE IF data[2] < 1 \/ Len(data) % 256 # (data[2] + 2) % 256
    THEN "BadSocksHeader"
    ELSE IF ~(\E i \in 3 .. Len(data) : data[i] = METHOD_NOAUTH)
    THEN "NoAcceptableMethods"
    ELSE "Success"

\* after try_process!(write_to_sock([0x05, 0x00], true))
handle_stage_init_accepted(w) ==
    IF ~IsSuccess(w) THEN w ELSE Success([w EXCEPT !.proc.stage = "Addr", !.obs.off_graph = OffGraph(w, "Addr")])

\* after write_to_sock([0x05, 0xff], true), its result dropped
handle_stage_init_refused(w) == IF Panicked(w) THEN w ELSE need_destroy(w)

\* r the result of check_auth_method
handle_stage_init_checked(w, r) ==
    CASE r = "Panic" -> Panic(w, "check_auth_method")
      [] r = "Success" ->
            handle_stage_init_accepted(write_to_sock(w, <<5, 0>>, TRUE))
      [] r = "BadSocksHeader" -> need_destroy(w)
      [] OTHER -> handle_stage_init_refused(write_to_sock(w, <<5, 255>>, TRUE))

\* the result check_auth_method returned to handle_stage_init
AuthResult(w, r) == [w EXCEPT !.obs.auth = r]

handle_stage_init(w, data) ==
    handle_stage_init_checked(
        AuthResult(w, check_auth_method(data, w.io.ovf_panic)),
        check_auth_method(data, w.io.ovf_panic))

-----------------------------------------------------------------------------
(* The four event handlers *)

\* the bytes on_local_read has handed to handle_stage_init so far
InitRead(w, data) == [w EXCEPT !.obs.init_read = @ \o data]

\* the data handed to handle_stage_addr
AddrRead(w, data) == [w EXCEPT !.obs.addr_read = data]

\* on_local_read with the data receive_data returned
on_local_read_data(w, data) ==
    IF Len(data) > 0
    THEN CASE w.proc.stage = "Init" ->
                handle_stage_init(InitRead(w, data), data)
           [] w.proc.stage = "Addr" ->
                handle_stage_addr(AddrRead(w, data), data)
           [] w.proc.stage = "Connecting" -> handle_stage_connecting(w, data)
           [] w.proc.stage = "Stream" -> handle_stage_stream(w, data)
           [] OTHER -> Success(w)
    ELSE need_destroy(w)

\* on_local_read after receive_data
on_local_read_received(w) ==
    IF Panicked(w) THEN w
    ELSE IF ~IsSome(w.data) THEN Success(w)
    ELSE on_local_read_data(w, Unwrap(w.data))

on_local_read(w) ==
    on_local_read_received(receive_data(Enter(w, "on_local_read"), TRUE))

\* on_remote_read after receive_data
on_remote_read_received(w) ==
    IF Panicked(w) THEN w
    ELSE IF ~IsSome(w.data) THEN Success(w)
    ELSE IF Len(Unwrap(w.data)) > 0
    THEN write_to_sock(w, Unwrap(w.data), TRUE)
    ELSE need_destroy(w)

on_remote_read(w) ==
    on_remote_read_received(receive_data(Enter(w, "on_remote_read"), FALSE))

\* the end of on_local_write and on_remote_write: back to readable when the
\* buffer is empty, the result the one of send_buf_data
on_write_sent(w, is_local_sock) ==
    IF Panicked(w) THEN w
    ELSE IF Len(BufferOf(w, is_local_sock)) = 0
    THEN KeepResult(change_to_readable(w, is_local_sock), w.res)
    ELSE w

\* the start of on_local_write and on_remote_write
on_write_send(w, is_local_sock) ==
    on_write_sent(IF Len(BufferOf(w, is_local_sock)) > 0
                  THEN send_buf_data(w, is_local_sock)
                  ELSE Success(w),
                  is_local_sock)

on_local_write(w) == on_write_send(Enter(w, "on_local_write"), TRUE)

on_remote_write(w) ==
    on_write_send([Enter(w, "on_remote_write") EXCEPT !.proc.stage = "Stream", !.obs.off_graph = OffGraph(w, "Stream")],
                  FALSE)

-----------------------------------------------------------------------------
(* Caller::handle_dns_resolved and Processor::process *)

\* handle_dns_resolved after create_connection returned the socket
handle_dns_resolved_connected(w) ==
    IF ~IsSome(w.proc.remote_token) THEN Panic(w, "handle_dns_resolved")
    ELSE Success(add_to_loop(w, Unwrap(w.proc.remote_token),
                             get_basic_events \cup {"writable", "hup"}, FALSE))

\* the port create_connection connects to
ConnectPort(w) ==
    IF w.proc.is_client THEN RemotePort ELSE Unwrap(w.proc.server_address)[2]

\* io.conn_ok: create_connection returns Ok
handle_dns_resolved(w, hostname_ip, errmsg) ==
    IF IsSome(errmsg) THEN need_destroy(w)
    ELSE IF ~IsSome(hostname_ip) THEN need_destroy(w)
    ELSE IF ~w.proc.is_client /\ ~IsSome(w.proc.server_address)
    THEN need_destroy([w EXCEPT !.proc.stage = "Connecting", !.obs.off_graph = OffGraph(w, "Connecting")])
    ELSE IF ~w.io.conn_ok
    THEN need_destroy([w EXCEPT !.proc.stage = "Connecting", !.obs.off_graph = OffGraph(w, "Connecting"),
                                !.obs.last.io_err = TRUE])
    ELSE handle_dns_resolved_connected(
             [w EXCEPT !.proc.stage = "Connecting", !.obs.off_graph = OffGraph(w, "Connecting"),
                       !.proc.remote_sock = TRUE,
                       !.sock.target =
                           Some(<<Unwrap(hostname_ip)[2], ConnectPort(w)>>)])

\* process after the read handler: try_process!, then the write handler
process_read(w, events, is_local_sock) ==
    IF ~IsSuccess(w) THEN w
    ELSE IF "writable" \in events
    THEN IF is_local_sock THEN on_local_write(w) ELSE on_remote_write(w)
    ELSE Success(w)

process(w, token, events) ==
    IF Some(token) = w.proc.local_token
    THEN IF "error" \in events THEN need_destroy(w)
         ELSE process_read(IF "readable" \in events \/ "hup" \in events
                           THEN on_local_read(w) ELSE Success(w),
                           events, TRUE)
    ELSE IF Some(token) = w.proc.remote_token
    THEN IF "error" \in events THEN need_destroy(w)
         ELSE process_read(IF "readable" \in events \/ "hup" \in events
                           THEN on_remote_read(w) ELSE Success(w),
                           events, FALSE)
    ELSE Success(w)

-----------------------------------------------------------------------------
(* The sessions, their tokens and the initial state: a session as the relay *)
(* leaves it after accept (TCPProcessor::new, set_remote_token, add_to_loop *)
(* of the local socket), stored in the slab under both tokens.              *)

Roles == {"client", "server"}
LocalToken(p) == IF p = "client" THEN 2 ELSE 4
RemoteToken(p) == IF p = "client" THEN 3 ELSE 5
Sides == {"local", "remote"}
Tokens(p) == {LocalToken(p), RemoteToken(p)}

Salts == {[i \in 1 .. SaltLen |-> 10 + i]}
PeerSalt == [i \in 1 .. SaltLen |-> 20 + i]

new(is_client, salt) ==
    [stage |-> IF is_client THEN "Init" ELSE "Addr",
     is_client |-> is_client,
     local_token |-> None,
     local_sock |-> TRUE,
     remote_token |-> None,
     remote_sock |-> FALSE,
     data_to_write_to_local |-> <<>>,
     data_to_write_to_remote |-> <<>>,
     server_address |-> None,
     encryptor |-> NewEncryptor(salt)]

Accepted(p, salt) ==
    [new(p = "client", salt) EXCEPT !.local_token = Some(LocalToken(p)),
                                    !.remote_token = Some(RemoteToken(p))]

NoRun == [res |-> "Success", cipher_err |-> FALSE, after_cipher_err |-> FALSE,
          io_err |-> FALSE]

InitObs == [teardowns |-> 0, destroy_calls |-> 0, resolves |-> 0,
            init_read |-> <<>>, addr_read |-> <<>>, auth |-> "",
            callbacks |-> 0, buffered_passes |-> <<>>, written_passes |-> {},
            off_graph |-> FALSE, enc |-> {}, dec |-> {},
            want |-> [local |-> <<>>, remote |-> <<>>],
            overtook |-> [local |-> FALSE, remote |-> FALSE],
            last |-> NoRun]

InitSock(faults) ==
            [inb |-> [local |-> <<>>, remote |-> <<>>],
             eof |-> [local |-> FALSE, remote |-> FALSE],
             out |-> [local |-> <<>>, remote |-> <<>>],
             sent |-> [local |-> 0, remote |-> 0],
             faults |-> faults,
             fwd |-> 0,
             peer |-> NewEncryptor(PeerSalt),
             target |-> None]

\* sessions exist once the start-up of the relay is over
Started == "started"

InitOf(ids, faults) ==
    /\ \E salt \in [ids -> Salts] : proc = [p \in ids |-> Accepted(p, salt[p])]
    /\ loop = [p \in ids |-> [local |-> Some(get_basic_events \cup {"hup"}),
                              remote |-> None]]
    /\ dns = [p \in ids |-> {}]
    /\ processors = UNION {{LocalToken(p), RemoteToken(p)} : p \in ids}
    /\ sock = [p \in ids |-> InitSock(faults)]
    /\ obs = [p \in ids |-> InitObs]
    /\ aborted = ""
    /\ relay = Started

Init == \E p \in Roles : InitOf({p}, 0)

\* the failures an io record injects
NFaults(io) ==
    (IF io.rd_err THEN 1 ELSE 0) + (IF io.dec_ok THEN 0 ELSE 1)
    + (IF io.enc_ok THEN 0 ELSE 1) + (IF io.reg_ok THEN 0 ELSE 1)
    + (IF io.conn_ok THEN 0 ELSE 1)
    + (IF io.wr_local < 0 THEN 1 ELSE 0) + (IF io.wr_remote < 0 THEN 1 ELSE 0)

-----------------------------------------------------------------------------
(* One handler run on session p: the world it starts from, and its commit   *)

World(p, io) ==
    [proc |-> proc[p], loop |-> loop[p], dns |-> dns[p],
     sock |-> [sock[p] EXCEPT !.faults = @ + NFaults(io)],
     obs |-> [obs[p] EXCEPT !.last = NoRun],
     aborted |-> aborted, io |-> io,
     res |-> [kind |-> "Success", tokens |-> <<>>], data |-> None,
     replay |-> FALSE, passes |-> <<>>]

Commit(p, w) ==
    /\ proc' = [proc EXCEPT ![p] = w.proc]
    /\ loop' = [loop EXCEPT ![p] = w.loop]
    /\ dns' = [dns EXCEPT ![p] = w.dns]
    /\ sock' = [sock EXCEPT ![p] = w.sock]
    /\ obs' = [obs EXCEPT ![p] = w.obs]
    /\ aborted' = w.aborted
    /\ UNCHANGED relay

\* the dispatcher: on Failed(tokens), destroy the session and remove the tokens
Dispatched(w) ==
    IF w.res.kind = "Failed"
    THEN destroy([w EXCEPT !.obs.last.res = w.res.kind])
    ELSE [w EXCEPT !.obs.last.res = w.res.kind]

Removed(w) ==
    IF w.res.kind = "Failed" /\ ~Panicked(Dispatched(w))
    THEN {w.res.tokens[i] : i \in 1 .. Len(w.res.tokens)}
    ELSE {}

-----------------------------------------------------------------------------
(* What the environment may hand to a handler run *)

\* a write returns Err (-1), or takes all bytes (0), or all but the last r; a
\* write that would take nothing returns Err (WouldBlock) on a non-blocking socket
Writes == {-1} \cup (0 .. MaxShort)

Reads(events) == "readable" \in events \/ "hup" \in events

IOs(p, is_local_sock, events) ==
    LET reads == Reads(events)
        writes == "writable" \in events
        client == proc[p].is_client
        stage == proc[p].stage
        inbox == sock[p].inb[Side(is_local_sock)]
        to_local == (is_local_sock /\ (writes \/ (reads /\ stage \in {"Init", "Addr"})))
                    \/ (~is_local_sock /\ reads)
        to_remote == (is_local_sock /\ reads /\ stage = "Stream")
                     \/ (~is_local_sock /\ writes)
        enc == IF client THEN to_remote ELSE to_local
    IN {io \in
       [rd_n : IF reads /\ Len(inbox) > 1
               THEN (1 .. Min(MaxChunk, Len(inbox))) \cup {Len(inbox)} ELSE {1},
        rd_err : IF reads THEN BOOLEAN ELSE {FALSE},
        dec_ok : IF reads /\ IsCipherSide(client, is_local_sock)
                 THEN BOOLEAN ELSE {TRUE},
        enc_ok : IF enc THEN BOOLEAN ELSE {TRUE},
        wr_local : IF to_local THEN Writes ELSE {0},
        wr_remote : IF to_remote THEN Writes ELSE {0},
        reg_ok : {TRUE},
        ovf_panic : IF reads /\ is_local_sock /\ stage = "Init" /\ Len(inbox) > 1
                    THEN (IF inbox[2] >= 254 THEN BOOLEAN ELSE {FALSE})
                    ELSE {FALSE},
        conn_ok : {TRUE}] : sock[p].faults + NFaults(io) <= MaxFaults}

QuietIO == [rd_n |-> 1, rd_err |-> FALSE, dec_ok |-> TRUE, enc_ok |-> TRUE,
            wr_local |-> 0, wr_remote |-> 0, reg_ok |-> TRUE,
            ovf_panic |-> FALSE, conn_ok |-> TRUE]

EventSets == {{"readable"}, {"writable"}, {"readable", "writable"},
              {"hup"}, {"error"}}

\* what a level-triggered reactor can report for a registered socket
Deliverable(p, side, events) ==
    /\ IsSome(loop[p][side])
    /\ "readable" \in events =>
           /\ "readable" \in Unwrap(loop[p][side])
           /\ sock[p].inb[side] # <<>> \/ sock[p].eof[side]
    /\ "writable" \in events => "writable" \in Unwrap(loop[p][side])
    /\ "hup" \in events => sock[p].eof[side]

-----------------------------------------------------------------------------
(* Actions *)

TokenFor(p, is_local_sock) ==
    IF is_local_sock THEN LocalToken(p) ELSE RemoteToken(p)

\* the dispatcher after a handler of session p returned with the world w
Handled(p, w) ==
    /\ Commit(p, Dispatched(w))
    /\ processors' = processors \ Removed(w)

\* the reactor reports events for a token: the dispatcher looks the session up
\* in the slab, calls process and handles Failed
Ready(p, is_local_sock, events, io) ==
    /\ aborted = ""
    /\ TokenFor(p, is_local_sock) \in processors
    /\ Deliverable(p, Side(is_local_sock), events)
    /\ Handled(p, process(World(p, io), TokenFor(p, is_local_sock), events))

\* the address a hostname resolves to: an IP literal is its own address
Resolved(hostname) == IF hostname = Loopback THEN Loopback ELSE <<10, 0, 0, 1>>

\* the resolver removes a waiter and calls it
Called(w) == [w EXCEPT !.dns = {}, !.obs.callbacks = @ + 1]

\* the resolver forgets a waiting token and answers it
DnsResolved(p, hostname, ok, io) ==
    /\ aborted = ""
    /\ sock[p].faults + NFaults(io) <= MaxFaults
    /\ hostname \in dns[p]
    /\ Handled(p, IF ok
                  THEN handle_dns_resolved(Called(World(p, io)),
                                           Some(<<hostname, Resolved(hostname)>>),
                                           None)
                  ELSE handle_dns_resolved(Called(World(p, io)),
                                           None, Some("dns error")))

\* the relay after destroy returned with the world w
TimedOut(p, w) ==
    /\ Commit(p, w)
    /\ processors' = IF Panicked(w) THEN processors
                     ELSE processors \ {LocalToken(p), RemoteToken(p)}

\* the idle timer of a session fires: the relay destroys it
Timeout(p) ==
    /\ aborted = ""
    /\ LocalToken(p) \in processors
    /\ TimedOut(p, destroy(World(p, QuietIO)))

\* what the peers of a session send: the address is the domain "h", port 80
Hello == <<5, 1, 0>>
HelloNoAuth == <<5, 1, 2>>
AddrBlock == <<3, 1, 104, 0, 80>>
Connect == <<5, 1, 0>> \o AddrBlock
Bind == <<5, 2, 0>> \o AddrBlock
ConnectCut == <<5, 1, 0, 3, 1>>
UdpAssociate == <<5, 3, 0>> \o AddrBlock
Payload(k) == <<63 + 2 * k, 64 + 2 * k>>
Reply == <<70, 71>>
IsData(msg) == Len(msg) = 2

\* the local peer of a client speaks SOCKS5, phase by phase, rightly or wrongly;
\* the local peer of a server sends an address block, then payload
Messages(p, side) ==
    IF side = "remote" THEN {Reply}
    ELSE IF p = "client"
    THEN CASE proc[p].stage = "Init" -> {Hello, HelloNoAuth}
           [] proc[p].stage = "Addr" ->
                {Connect, ConnectCut, Bind, UdpAssociate}
           [] OTHER -> {Payload(sock[p].sent.local + 1)}
    ELSE IF proc[p].stage = "Addr" THEN {AddrBlock, AddrBlock \o <<64>>}
    ELSE {Payload(sock[p].sent.local + 1)}

\* a peer writes to its end of a socket; the relay-facing peer encrypts
PeerSend(p, side, msg) ==
    LET e == IF IsCipherSide(proc[p].is_client, side = "local")
             THEN encrypt(sock[p].peer, msg, TRUE)
             ELSE [enc |-> sock[p].peer, out |-> Some(msg)]
    IN /\ aborted = ""
       /\ HasSock([proc |-> proc[p]], side = "local")
       /\ ~sock[p].eof[side]
       /\ sock[p].inb[side] = <<>>
       /\ IsData(msg) =>
              sock[p].sent[side] < (IF side = "local" THEN MaxSend ELSE MaxReply)
       /\ sock' = [sock EXCEPT ![p].inb[side] = @ \o Unwrap(e.out),
                               ![p].sent[side] = IF IsData(msg) THEN @ + 1 ELSE @,
                               ![p].peer = e.enc]
       /\ UNCHANGED <<proc, loop, dns, processors, obs, aborted, relay>>

\* a peer closes its end
PeerClose(p, side) ==
    /\ aborted = ""
    /\ HasSock([proc |-> proc[p]], side = "local")
    /\ ~sock[p].eof[side]
    /\ sock[p].inb[side] = <<>>
    /\ sock' = [sock EXCEPT ![p].eof[side] = TRUE]
    /\ UNCHANGED <<proc, loop, dns, processors, obs, aborted, relay>>

Next ==
    \/ \E p \in DOMAIN proc, is_local_sock \in BOOLEAN, events \in EventSets :
           \E io \in IOs(p, is_local_sock, events) :
               Ready(p, is_local_sock, events, io)
    \/ \E p \in DOMAIN proc, ok \in BOOLEAN, conn_ok \in BOOLEAN :
           \E hostname \in dns[p] :
               DnsResolved(p, hostname, ok, [QuietIO EXCEPT !.conn_ok = conn_ok])
    \/ \E p \in DOMAIN proc : Timeout(p)
    \/ \E p \in DOMAIN proc, side \in Sides :
           \E msg \in Messages(p, side) : PeerSend(p, side, msg)
    \/ \E p \in DOMAIN proc, side \in Sides : PeerClose(p, side)

Spec == Init /\ [][Next]_vars

-----------------------------------------------------------------------------
(* A client-role and a server-role session joined remote_sock to local_sock: *)
(* what the client writes to its remote socket arrives on the local socket   *)
(* of the server.  No read, write, cipher or connect fails; reads are        *)
(* chunked and writes are short as in Spec.                                  *)

PairInit == InitOf(Roles, MaxFaults)

\* the application at the client's local socket: SOCKS5 as it should be spoken
AppMessages ==
    CASE proc["client"].stage = "Init" -> {Hello}
      [] proc["client"].stage = "Addr" -> {Connect}
      [] OTHER -> {Payload(sock["client"].sent.local + 1)}

AppSend(msg) == PeerSend("client", "local", msg)

\* the connection between the two relays carries the bytes the client wrote
Wire ==
    /\ aborted = ""
    /\ proc["server"].local_sock
    /\ sock["server"].inb.local = <<>>
    /\ sock["client"].fwd < Len(sock["client"].out.remote)
    /\ sock' = [sock EXCEPT
                  !["server"].inb.local =
                      Drop(sock["client"].out.remote, sock["client"].fwd),
                  !["client"].fwd = Len(sock["client"].out.remote)]
    /\ UNCHANGED <<proc, loop, dns, processors, obs, aborted, relay>>

PairEventSets == {{"readable"}, {"writable"}, {"readable", "writable"}}

PairNext ==
    \/ \E p \in Roles, is_local_sock \in BOOLEAN, events \in PairEventSets :
           \E io \in IOs(p, is_local_sock, events) :
               Ready(p, is_local_sock, events, io)
    \/ \E p \in Roles : \E hostname \in dns[p] :
           DnsResolved(p, hostname, TRUE, QuietIO)
    \/ \E msg \in AppMessages : AppSend(msg)
    \/ Wire

PairSpec == PairInit /\ [][PairNext]_vars

\* the plaintext the application wrote after its CONNECT request
P == IF sock["client"].sent.local >= 1 THEN Payload(1) ELSE <<>>

\* the bytes the server-role session wrote to the destination
Delivered == sock["server"].out.remote

-----------------------------------------------------------------------------
(* The start-up of a relay: init_relay, before any session exists.  The      *)
(* holder, the resolver and the configuration are its surroundings; what     *)
(* they return is chosen by the environment.                                 *)

Ok(v) == [ok |-> TRUE, val |-> v]
Err(e) == [ok |-> FALSE, err |-> e]

ok_or(opt, e) == IF IsSome(opt) THEN Ok(Unwrap(opt)) ELSE Err(e)

\* the holder: a slab of fixed capacity, its allocated tokens
HolderNew(cap) == [cap |-> cap, tokens |-> {}]

FreeTokens(h) == (0 .. h.cap - 1) \ h.tokens

alloc_token(h) ==
    IF FreeTokens(h) = {} THEN None
    ELSE Some(CHOOSE t \in FreeTokens(h) : \A u \in FreeTokens(h) : t <= u)

Allocated(h) ==
    IF FreeTokens(h) = {} THEN h
    ELSE [h EXCEPT !.tokens = @ \cup {Unwrap(alloc_token(h))}]

\* each fallible step of init_relay leaves its outcome in the history
Outcome(rl, r) == [rl EXCEPT !.trace = Append(@, r)]

\* a step whose error is dropped and whose value is then empty
question_unchecked(rl, r, local) ==
    [rl EXCEPT ![local] = IF r.ok THEN r.val ELSE <<>>]

\* let local = r?;
question(rl, r, local) ==
    IF r.ok THEN [rl EXCEPT ![local] = r.val]
    ELSE [rl EXCEPT !.returned = TRUE, !.result = r]

Bound(rl, r, local) == question(Outcome(rl, r), r, local)

init_relay_alloc(rl, local) ==
    IF rl.returned THEN rl
    ELSE Bound([rl EXCEPT !.processors = Allocated(@)],
               ok_or(alloc_token(rl.processors), "AllocTokenFailed"), local)

DnsResolverNew(rl, token, prefer_ipv6) ==
    IF rl.env.new_ok THEN Ok([token |-> token, prefer_ipv6 |-> prefer_ipv6])
    ELSE Err("IoError")

init_relay_resolver(rl) ==
    IF rl.returned THEN rl
    ELSE Bound(rl, DnsResolverNew(rl, rl.dns_token, rl.config.prefer_ipv6),
               "dns_resolver")

block_resolve(rl, host) ==
    CASE rl.env.resolved.kind = "Err" -> Err("DnsError")
      [] rl.env.resolved.kind = "None" -> Ok(None)
      [] OTHER -> Ok(Some(<<host, rl.env.resolved.ip>>))

\* r.and_then(|h| h.ok_or(Timeout))
OrTimeout(r) == IF r.ok THEN ok_or(r.val, "Timeout") ELSE r

\* let HostIpPair(_host, ip) = r?;
IpOf(r) == IF r.ok THEN Ok(r.val[2]) ELSE r

init_relay_pair(rl, r) == question(Outcome(rl, r), IpOf(r), "ip")

init_relay_resolved(rl) ==
    IF rl.returned THEN rl
    ELSE init_relay_pair(rl, OrTimeout(block_resolve(rl, rl.config.address)))

pair2addr(ip, port) ==
    IF Len(ip) = 4 /\ \A i \in 1 .. Len(ip) : ip[i] \in 0 .. 255
    THEN Ok(<<ip, port>>)
    ELSE Err("ParseAddrFailed")

init_relay_addr(rl) ==
    IF rl.returned THEN rl
    ELSE Bound(rl, pair2addr(rl.ip, rl.config.port), "socket_addr")

\* the relay constructor closure
init_relay_f(rl) ==
    IF rl.returned THEN rl
    ELSE [rl EXCEPT !.f_calls = Append(@, [token |-> rl.token,
                                           dns_token |-> rl.dns_token,
                                           dns_resolver |-> rl.dns_resolver,
                                           processors |-> rl.processors,
                                           socket_addr |-> rl.socket_addr]),
                    !.returned = TRUE,
                    !.result = IF rl.env.f_ok THEN Ok("relay")
                               ELSE Err("BindFailed")]

init_relay(rl) ==
    init_relay_f(init_relay_addr(init_relay_resolved(init_relay_resolver(
        init_relay_alloc(init_relay_alloc(rl, "token"), "dns_token")))))

\* configurations and surroundings of the start-up
ConfigHosts == {RemoteHost, Loopback}
ConfigPorts == {RemotePort, RemotePort + 1}
ResolvedIps == {RemoteHost, <<256, 0, 0, 1>>}

NoEnv == [new_ok |-> TRUE, resolved |-> [kind |-> "None", ip |-> <<>>],
          f_ok |-> TRUE]

RelayEnvs ==
    {[new_ok |-> n, resolved |-> [kind |-> k, ip |-> ip], f_ok |-> f] :
        n \in BOOLEAN, k \in {"Err", "None", "Some"}, ip \in ResolvedIps,
        f \in BOOLEAN}

RelayInit ==
    /\ proc = <<>> /\ loop = <<>> /\ dns = <<>> /\ sock = <<>> /\ obs = <<>>
    /\ processors = {}
    /\ aborted = ""
    /\ \E cap \in 0 .. MaxSlab, address \in ConfigHosts, port \in ConfigPorts,
          prefer_ipv6 \in BOOLEAN :
           relay = [config |-> [address |-> address, port |-> port,
                                prefer_ipv6 |-> prefer_ipv6],
                    processors |-> HolderNew(cap), env |-> NoEnv,
                    token |-> <<>>, dns_token |-> <<>>, dns_resolver |-> <<>>,
                    ip |-> <<>>, socket_addr |-> <<>>,
                    returned |-> FALSE, result |-> <<>>,
                    trace |-> <<>>, f_calls |-> <<>>]

InitRelay ==
    /\ ~relay.returned
    /\ \E env \in RelayEnvs :
           relay' = [init_relay([relay EXCEPT !.env = env]) EXCEPT
                        !.env = NoEnv]
    /\ UNCHANGED <<proc, loop, dns, processors, sock, obs, aborted>>

RelaySpec == RelayInit /\ [][InitRelay]_vars

-----------------------------------------------------------------------------
(* check_auth_method on its inputs: a client in stage Init finds one message *)
(* in its local socket and reads it whole.  The messages are 05 nmethods     *)
(* fill .. fill, short ones and ones around the 8-bit boundary of the length *)

HelloLens == (1 .. 5) \cup (254 .. MaxHelloLen)

HelloOf(len, nmethods, fill) ==
    [i \in 1 .. len |-> IF i = 1 THEN 5 ELSE IF i = 2 THEN nmethods ELSE fill]

AuthInit ==
    /\ proc = [p \in {"client"} |-> Accepted(p, CHOOSE s \in Salts : TRUE)]
    /\ loop = [p \in {"client"} |->
                 [local |-> Some(get_basic_events \cup {"hup"}), remote |-> None]]
    /\ dns = [p \in {"client"} |-> {}]
    /\ processors = Tokens("client")
    /\ \E len \in HelloLens, nmethods \in 0 .. 255, fill \in {0, 2} :
           sock = [p \in {"client"} |->
                     [InitSock(MaxFaults) EXCEPT
                        !.inb.local = HelloOf(len, nmethods, fill)]]
    /\ obs = [p \in {"client"} |-> InitObs]
    /\ aborted = ""
    /\ relay = Started

\* one read takes the whole message; the build checks u8 overflow or wraps
AuthIOs ==
    {[QuietIO EXCEPT !.rd_n = Len(sock["client"].inb.local), !.ovf_panic = b] :
        b \in BOOLEAN}

AuthNext ==
    \E io \in AuthIOs : Ready("client", TRUE, {"readable"}, io)

AuthSpec == AuthInit /\ [][AuthNext]_vars

-----------------------------------------------------------------------------
(* Properties *)

\* C1: the teardown of a session (the body of destroy past its stage guard)
\* runs at most once, and after the step in which it ran the slab holds no
\* entry for the local or the remote token of the session.
C1_TeardownOnceAndSlabEmpty ==
    \A p \in DOMAIN proc :
        /\ obs[p].teardowns <= 1
        /\ obs[p].teardowns >= 1 => processors \cap Tokens(p) = {}

\* the payload has passed every buffer and socket between the application
\* and the destination, and both sessions relay
Drained ==
    /\ aborted = ""
    /\ \A p \in Roles : /\ proc[p].stage = "Stream"
                        /\ proc[p].data_to_write_to_remote = <<>>
                        /\ sock[p].inb.local = <<>>
    /\ sock["client"].fwd = Len(sock["client"].out.remote)

\* C2: what the server-role session delivers to the destination is at all
\* times a prefix of the plaintext P the application wrote to the client after
\* its CONNECT request, and is P once every buffer on the way has drained.
C2_RoundTrip ==
    /\ IsPrefix(Delivered, P)
    /\ Drained => Delivered = P

\* C3: while the output buffer of a socket is non-empty, no newly offered byte
\* is written to the socket ahead of the bytes in the buffer.
C3_BufferedBytesGoFirst ==
    \A p \in DOMAIN proc : \A side \in Sides : ~obs[p].overtook[side]

\* the plaintext of what a session wrote to a socket, as its reader gets it
Written(p, side) ==
    IF IsCipherSide(proc[p].is_client, side = "local")
    THEN Unwrap(decrypt(NewEncryptor(<<>>), sock[p].out[side], TRUE).out)
    ELSE sock[p].out[side]

\* C4: when the output buffer of a socket of a live session has become empty
\* again after short writes, the socket has received every byte offered to
\* write_to_sock for it, each once and in the order of the offers.
C4_DrainedBufferWroteAll ==
    \A p \in DOMAIN proc : \A side \in Sides :
        ( /\ aborted = ""
          /\ proc[p].stage # "Destroyed"
          /\ obs[p].teardowns = 0
          /\ BufferOf([proc |-> proc[p]], side = "local") = <<>> )
        => Written(p, side) = obs[p].want[side]

\* C5: once the teardown of a session has set its stage to Destroyed, no
\* handler, the rest of the same process invocation included, gives it
\* another stage or a socket.
C5_DestroyedIsTerminal ==
    \A p \in DOMAIN proc :
        obs[p].teardowns >= 1 =>
            /\ proc[p].stage = "Destroyed"
            /\ ~proc[p].local_sock
            /\ ~proc[p].remote_sock

\* C6: destroy called on a session whose stage is Destroyed changes nothing:
\* stage, sockets, tokens, buffers, registrations and resolver waiters stay as
\* they are, the teardown does not run, nothing aborts.
C6_DestroyIdempotent ==
    [][\A p \in DOMAIN proc :
           ( /\ proc[p].stage = "Destroyed"
             /\ obs'[p].destroy_calls = obs[p].destroy_calls + 1 )
           => /\ proc'[p] = proc[p]
              /\ loop'[p] = loop[p]
              /\ dns'[p] = dns[p]
              /\ obs'[p].teardowns = obs[p].teardowns
              /\ aborted' = aborted]_vars

\* a second destroy has been called on a session that was torn down
C6_Witness ==
    \E p \in DOMAIN proc :
        /\ obs[p].destroy_calls >= 2
        /\ obs[p].teardowns = 1
        /\ proc[p].stage = "Destroyed"
        /\ aborted = ""

\* C7: after destroy returned on a session, its stage is Destroyed, it has no
\* socket and no registration, the resolver holds no waiter for it, and both
\* output buffers are empty.
C7_DestroyLeavesNothing ==
    \A p \in DOMAIN proc :
        (obs[p].teardowns >= 1 /\ proc[p].stage = "Destroyed" /\ aborted = "")
        => /\ ~proc[p].local_sock /\ ~proc[p].remote_sock
           /\ loop[p].local = None /\ loop[p].remote = None
           /\ dns[p] = {}
           /\ proc[p].data_to_write_to_local = <<>>
           /\ proc[p].data_to_write_to_remote = <<>>

\* C8: a handler run in which decrypt or encrypt failed returns Failed, and no
\* read or write handler of that run starts after the failure.
C8_CipherErrorFails ==
    \A p \in DOMAIN proc :
        obs[p].last.cipher_err =>
            /\ obs[p].last.res = "Failed"
            /\ ~obs[p].last.after_cipher_err

\* C9: a handler run in which a read, a write or the connect returned an error
\* returns Failed, and the session is Destroyed after it.
C9_IoErrorFails ==
    \A p \in DOMAIN proc :
        obs[p].last.io_err =>
            /\ obs[p].last.res = "Failed"
            /\ proc[p].stage = "Destroyed"

\* C10: no byte string read from the local socket in stage Addr aborts the
\* event loop in handle_stage_addr.
C10_AddrNeverAborts == aborted # "handle_stage_addr"

\* C11: a client that has read, piece by piece, the beginning of a valid
\* method-selection message has not rejected it: the session accepts exactly
\* when the concatenation of the pieces is valid.
C11_SplitHelloAccepted ==
    \A p \in DOMAIN proc :
        ( /\ proc[p].is_client
          /\ obs[p].init_read # <<>>
          /\ obs[p].init_read # Hello
          /\ IsPrefix(obs[p].init_read, Hello) )
        => obs[p].last.res # "Failed"

\* the verdict on a method-selection message, in unbounded integers
AuthVerdict(data) ==
    IF Len(data) < 3 \/ data[1] # 5 THEN "BadSocksHeader"
    ELSE IF data[2] < 1 \/ Len(data) # data[2] + 2 THEN "BadSocksHeader"
    ELSE IF \E i \in 3 .. Len(data) : data[i] = 0 THEN "Success"
    ELSE "NoAcceptableMethods"

\* C12: check_auth_method returns Success exactly for a message of length
\* >= 3, version 5, nmethods >= 1, length nmethods + 2 in unbounded integers
\* and a method 00; a length that differs from nmethods + 2 is BadSocksHeader;
\* the 8-bit arithmetic neither overflows nor changes the verdict.
C12_AuthVerdictExact ==
    \A p \in DOMAIN proc :
        obs[p].auth # "" => obs[p].auth = AuthVerdict(obs[p].init_read)

\* C13: after a well-formed method selection without method 00 the local peer
\* has received exactly 05 FF, also when the write was short, the session is
\* destroyed and neither a resolution nor a connection was started; after a
\* malformed one the session is destroyed and nothing was written.
C13_RefusalReply ==
    \A p \in DOMAIN proc :
        (obs[p].auth \in {"NoAcceptableMethods", "BadSocksHeader"}
         /\ sock[p].faults = 0 /\ aborted = "")
        => /\ sock[p].out.local =
                  IF obs[p].auth = "NoAcceptableMethods" THEN <<5, 255>> ELSE <<>>
           /\ proc[p].stage = "Destroyed"
           /\ obs[p].resolves = 0
           /\ sock[p].target = None

\* C14: on a session that has been torn down, with a resolution pending or
\* not, handle_dns_resolved is not called any more and no remote socket is
\* opened.
C14_NoCallbackAfterDestroy ==
    [][\A p \in DOMAIN proc :
           obs[p].teardowns >= 1 =>
               /\ obs'[p].callbacks = obs[p].callbacks
               /\ ~proc'[p].remote_sock]_vars

\* a session was torn down while its resolution was pending
C14_Witness ==
    \E p \in DOMAIN proc :
        /\ obs[p].resolves = 1
        /\ obs[p].callbacks = 0
        /\ obs[p].teardowns = 1
        /\ dns[p] = {}
        /\ aborted = ""

\* C15: between handler runs, a non-empty output buffer for a side means
\* that the socket of that side exists and is registered with writable
\* interest, in stages Dns and Connecting too.
C15_BufferedMeansWritable ==
    \A p \in DOMAIN proc : \A side \in Sides :
        (aborted = "" /\ BufferOf([proc |-> proc[p]], side = "local") # <<>>)
        => /\ HasSock([proc |-> proc[p]], side = "local")
           /\ IsSome(loop[p][side])
           /\ "writable" \in Unwrap(loop[p][side])

\* C16: a session in stage Stream has its local and its remote socket (the
\* stage is entered by on_remote_write, on a writable event of the remote).
C16_StreamHasBothSockets ==
    \A p \in DOMAIN proc :
        (aborted = "" /\ proc[p].stage = "Stream")
        => proc[p].local_sock /\ proc[p].remote_sock

\* C17: every assignment to the stage of a session is an edge of the stage
\* graph (Init->Addr and Addr->UdpAssoc on a client, Addr->Dns,
\* Dns->Connecting, Connecting->Stream, any->Destroyed), and a server session
\* is never in stage Init.
C17_StageGraph ==
    \A p \in DOMAIN proc :
        /\ ~obs[p].off_graph
        /\ ~proc[p].is_client => proc[p].stage # "Init"

\* the side of a session that faces the other relay
RelaySide(p) == IF proc[p].is_client THEN "remote" ELSE "local"

\* C18: a session passes bytes through encrypt and decrypt on its
\* relay-facing socket only (remote for a client, local for a server); what
\* it writes to the other socket, the SOCKS5 replies included, are the bytes
\* offered, unchanged.
C18_CipherOnRelaySideOnly ==
    \A p \in DOMAIN proc :
        /\ obs[p].enc \subseteq {RelaySide(p)}
        /\ obs[p].dec \subseteq {RelaySide(p)}
        /\ \A side \in Sides \ {RelaySide(p)} :
               (aborted = "" /\ sock[p].faults = 0 /\ ~obs[p].overtook[side])
               => sock[p].out[side] \o BufferOf([proc |-> proc[p]], side = "local")
                      = obs[p].want[side]

\* a client has answered in plaintext on its local socket, encrypted towards
\* the relay and decrypted what it read from the relay
C18_Witness ==
    \E p \in DOMAIN proc :
        /\ proc[p].is_client
        /\ obs[p].enc = {"remote"}
        /\ obs[p].dec = {"remote"}
        /\ IsPrefix(<<5, 0>> \o SuccessReply, sock[p].out.local)
        /\ Len(sock[p].out.local) > 12

\* C19: a client that parsed a CONNECT request has started one resolution, of
\* the configured host of the peer relay, after offering the 10-byte success
\* reply to the local socket; a server resolves the host of the address block.
C19_ResolvesConfiguredHost ==
    \A p \in DOMAIN proc :
        /\ obs[p].resolves <= 1
        /\ dns[p] # {} =>
               /\ IsSome(proc[p].server_address)
               /\ dns[p] = {IF proc[p].is_client THEN RemoteHost
                            ELSE Unwrap(proc[p].server_address)[1]}
               /\ proc[p].is_client =>
                      obs[p].want.local = <<5, 0>> \o SuccessReply

\* the history holds the outcome of each fallible step of init_relay that
\* ran: the two tokens, the resolver, block_resolve, pair2addr
AllSucceeded ==
    /\ Len(relay.trace) = 5
    /\ \A i \in 1 .. Len(relay.trace) : relay.trace[i].ok

\* C20: init_relay returns an error without calling f when a token cannot be
\* allocated, the resolver cannot be created, block_resolve fails or times
\* out, or the socket address cannot be built; f is called at most once, and
\* only when every step succeeded, with the two allocated tokens and the
\* resolved address.
C20_StartsWholeOrNotAtAll ==
    /\ Len(relay.f_calls) <= 1
    /\ relay.returned /\ ~AllSucceeded =>
           /\ relay.f_calls = <<>>
           /\ ~relay.result.ok
           /\ relay.result = relay.trace[Len(relay.trace)]
    /\ relay.returned /\ AllSucceeded => Len(relay.f_calls) = 1
    /\ relay.f_calls # <<>> =>
           /\ AllSucceeded
           /\ relay.f_calls[1].token = relay.trace[1].val
           /\ relay.f_calls[1].dns_token = relay.trace[2].val
           /\ relay.f_calls[1].token # relay.f_calls[1].dns_token
           /\ {relay.f_calls[1].token, relay.f_calls[1].dns_token}
                  \subseteq relay.f_calls[1].processors.tokens
           /\ relay.f_calls[1].socket_addr
                  = <<relay.trace[4].val[2], relay.config.port>>

\* init_relay returned after the resolver was created and block_resolve found
\* no address in time
C20_Witness ==
    /\ relay.returned
    /\ Len(relay.trace) = 4
    /\ relay.trace[3].ok
    /\ relay.result = Err("Timeout")
    /\ relay.f_calls = <<>>

\* C21: over its whole life a session calls resolve at most once, so at most
\* one hostname waits in the resolver, and it waits under the remote_token
\* the session holds.
C21_AtMostOneResolution ==
    \A p \in DOMAIN proc :
        /\ obs[p].resolves <= 1
        /\ Cardinality(dns[p]) <= obs[p].resolves
        /\ dns[p] # {} => IsSome(proc[p].remote_token)

\* a session that resolved once, went on to Connecting, and there read a
\* payload its local peer sent after the request
C21_Witness ==
    \E p \in DOMAIN proc :
        /\ obs[p].resolves = 1
        /\ proc[p].stage = "Connecting"
        /\ sock[p].sent.local >= 1
        /\ sock[p].inb.local = <<>>
        /\ Len(proc[p].data_to_write_to_remote) >= Len(Payload(1))

\* a request of at least 3 bytes that a client must refuse: a command other
\* than CONNECT and UDP ASSOCIATE, or a CONNECT whose address block does not
\* parse
RefusedRequest(data) ==
    /\ Len(data) >= 3
    /\ \/ data[2] \notin {CMD_CONNECT, CMD_UDP_ASSOCIATE}
       \/ data[2] = CMD_CONNECT /\ ~IsSome(parse_header(Drop(data, 3)))

\* C22: when handle_stage_addr of a client is handed such a request, the run
\* returns Failed and the session is destroyed and out of the slab; no byte of
\* the success reply is offered to the local socket, no resolution is started
\* and no remote socket is ever opened.
C22_BadRequestRefused ==
    [][\A p \in DOMAIN proc :
          proc[p].is_client /\ RefusedRequest(obs'[p].addr_read) =>
              /\ obs[p].addr_read = <<>> => obs'[p].last.res = "Failed"
              /\ proc'[p].stage = "Destroyed"
              /\ obs'[p].teardowns = 1
              /\ Tokens(p) \cap processors' = {}
              /\ IsPrefix(obs'[p].want.local, <<5, 0>>)
              /\ obs'[p].resolves = 0
              /\ dns'[p] = {}
              /\ ~proc'[p].remote_sock
              /\ sock'[p].target = None]_vars

\* a client was handed a CONNECT request whose address block is cut short
C22_Witness ==
    \E p \in DOMAIN proc :
        /\ proc[p].is_client
        /\ obs[p].addr_read = ConnectCut
        /\ proc[p].stage = "Destroyed"

\* a handler run of session p in which a read on the decrypting side returned
\* bytes that all went into the salt: decrypt succeeded with an empty output
SaltUnderRun(p) ==
    /\ Len(proc'[p].encryptor.dsalt) > Len(proc[p].encryptor.dsalt)
    /\ proc'[p].encryptor.dpos = proc[p].encryptor.dpos
    /\ Len(sock'[p].inb[RelaySide(p)]) < Len(sock[p].inb[RelaySide(p)])
    /\ sock'[p].inb[RelaySide(p)] = <<>> \/ Len(proc'[p].encryptor.dsalt) < SaltLen
    /\ sock'[p].faults = sock[p].faults
    /\ aborted' = ""

\* C23: a read on the decrypting side that returns bytes of which decrypt
\* makes an empty plaintext (salt under-run) is not an end of file: the run
\* returns Success and the session is neither destroyed nor taken out of the
\* slab.
C23_SaltUnderRunIsNotEof ==
    [][\A p \in DOMAIN proc :
          SaltUnderRun(p) =>
              /\ obs'[p].last.res = "Success"
              /\ proc'[p].stage # "Destroyed"
              /\ obs'[p].teardowns = obs[p].teardowns
              /\ Tokens(p) \cap processors' = Tokens(p) \cap processors]_vars

\* C24: every byte written to the relay-facing socket of a session, and every
\* byte waiting in its output buffer, has passed through Encryptor.encrypt at
\* most once, and every byte written exactly once.
C24_EncryptedOnce ==
    \A p \in DOMAIN proc :
        /\ obs[p].written_passes \subseteq {1}
        /\ \A i \in 1 .. Len(obs[p].buffered_passes) :
               obs[p].buffered_passes[i] <= 1

====
